---- MODULE Spec2Model ----
(***************************************************************************)
(* Model of the /api/ask handler of src/main.py: request normalisation and *)
(* validation, multimodal content assembly (attachment loop, PDF upload    *)
(* and status polling) and the SSE stream generator.                       *)
(*                                                                         *)
(* Text is a sequence of tokens (Seq(STRING)): a token is one character    *)
(* where the code works on characters (strip, upper, lower, json escaping) *)
(* and an opaque word elsewhere.  String concatenation is \o.  Bytes are   *)
(* sequences of integers 0..255.                                           *)
(***************************************************************************)
EXTENDS Integers, Sequences, FiniteSets, TLC

(***************************************************************************)
(* Bounds of the model.                                                    *)
(***************************************************************************)
MaxFiles == 2
MaxChunks == 2

(***************************************************************************)
(* Program constants.                                                      *)
(***************************************************************************)
ALLOWED_BOARDS == { <<"I","C","S","E">>, <<"C","B","S","E">>, <<"S","S","L","C">> }

SUPPORTED_MIME_TYPES ==
    { <<"image/jpeg">>, <<"image/png">>, <<"image/gif">>, <<"image/webp">>,
      <<"application/pdf">>, <<"text/plain">> }

max_wait == 20

\* The question-length cap of the specification (1500 characters there),
\* scaled to the question texts of the model.  src/main.py has no such cap.
QuestionCap == 3

\* The cap on the inlined text of a plain-text attachment of the specification
\* (8000 characters there), scaled to the text attachments of the model.
\* src/main.py has no such cap.
TextCap == 2

(***************************************************************************)
(* Python string and dict helpers.                                         *)
(***************************************************************************)
IsSpace(c) == c \in {" ", "\t", "\n"}

RECURSIVE LStrip(_)
LStrip(s) == IF s # <<>> /\ IsSpace(Head(s)) THEN LStrip(Tail(s)) ELSE s

RECURSIVE RStrip(_)
RStrip(s) ==
    IF s # <<>> /\ IsSpace(s[Len(s)]) THEN RStrip(SubSeq(s, 1, Len(s) - 1)) ELSE s

\* the strip left out
Strip_None(s) == s

\* str.strip()
Strip(s) == RStrip(LStrip(s))

UpperChar(c) ==
    CASE c = "i" -> "I" [] c = "c" -> "C" [] c = "s" -> "S" [] c = "e" -> "E"
      [] c = "b" -> "B" [] c = "l" -> "L" [] c = "x" -> "X" [] c = "t" -> "T"
      [] OTHER -> c

LowerChar(c) ==
    CASE c = "I" -> "i" [] c = "C" -> "c" [] c = "S" -> "s" [] c = "E" -> "e"
      [] c = "B" -> "b" [] c = "L" -> "l" [] c = "X" -> "x" [] c = "T" -> "t"
      [] OTHER -> c

\* the upper left out
Upper_None(s) == s

\* str.upper()
Upper(s) == [i \in 1..Len(s) |-> UpperChar(s[i])]

\* str.lower()
Lower(s) == [i \in 1..Len(s) |-> LowerChar(s[i])]

\* payload.get(k) or d : a missing key, None and "" all select the default.
GetOr(p, k, d) == IF k \in DOMAIN p /\ p[k] # <<>> THEN p[k] ELSE d

\* f.get(k, d) : only a missing key selects the default.
Get(f, k, d) == IF k \in DOMAIN f THEN f[k] ELSE d

\* needle in haystack, for texts
Contains(s, t) ==
    \/ t = <<>>
    \/ \E i \in 1..(Len(s) - Len(t) + 1) : s[i] = t[1] /\ SubSeq(s, i, i + Len(t) - 1) = t

(***************************************************************************)
(* base64.b64decode and bytes.decode("utf-8", errors="replace") on the     *)
(* payloads of the model.  b64decode raises binascii.Error on a payload    *)
(* with incorrect padding.                                                 *)
(***************************************************************************)
B64_PNG == <<"iVBORw==">>
B64_PDF == <<"JVBERg==">>
B64_TXT == <<"aGn/">>
B64_BAD == <<"abc">>

B64Valid(b64) == b64 \in {B64_PNG, B64_PDF, B64_TXT}

B64Decode(b64) ==
    CASE b64 = B64_PNG -> <<137, 80, 78, 71>>
      [] b64 = B64_PDF -> <<37, 80, 68, 70>>
      [] b64 = B64_TXT -> <<104, 105, 255>>
      [] OTHER -> <<>>

B64Error == <<"Incorrect padding">>

Utf8Char(b) ==
    CASE b = 104 -> "h" [] b = 105 -> "i" [] b = 37 -> "%" [] b = 80 -> "P"
      [] b = 68 -> "D" [] b = 70 -> "F" [] b = 78 -> "N" [] b = 71 -> "G"
      [] OTHER -> "\\ufffd"

Utf8DecodeReplace(bytes) == [i \in 1..Len(bytes) |-> Utf8Char(bytes[i])]

(***************************************************************************)
(* Requests.  A payload is a dict: a function whose domain is the set of   *)
(* keys present.  Absent marks a key that is left out of the dict.         *)
(***************************************************************************)
Absent == <<"<absent>">>

\* A dict of text values; keys[i] is left out when vals[i] is Absent.
Dict(keys, vals) ==
    [k \in {keys[i] : i \in {j \in 1..Len(keys) : vals[j] # Absent}} |->
        vals[CHOOSE i \in 1..Len(keys) : keys[i] = k]]

BoardInputs ==
    { Absent, <<>>, <<" ","c","b","s","e"," ">>, <<"X","Y","Z">>, <<" ">> }

QuestionInputs ==
    { Absent, <<" ">>, <<" ","q"," ">>, <<"q","q","q","q">> }

\* class_level, subject, chapter, model
OtherInputs ==
    { <<Absent, Absent, Absent, Absent>>,
      <<<<" ","9">>, <<"Maths">>, <<"Algebra">>, <<"T","2">>>> }

Attachments ==
    { Dict(<<"name","mimeType","base64">>, <<<<"a.zip">>, <<"application/zip">>, B64_PNG>>),
      Dict(<<"name","mimeType","base64">>, <<<<"e.zip">>, <<"application/zip">>, <<>>>>),
      Dict(<<"name","mimeType","base64">>, <<<<"n.bin">>, Absent, B64_PNG>>),
      Dict(<<"name","mimeType","base64">>, <<Absent, <<"image/png">>, B64_PNG>>),
      Dict(<<"name","mimeType","base64">>, <<<<"b.png">>, <<"image/png">>, B64_BAD>>),
      Dict(<<"name","mimeType","base64">>, <<<<"d.pdf">>, <<"application/pdf">>, B64_PDF>>),
      Dict(<<"name","mimeType","base64">>, <<<<"t.txt">>, <<"text/plain">>, B64_TXT>>) }

RECURSIVE SeqsUpTo(_, _)
SeqsUpTo(S, n) ==
    IF n = 0 THEN { <<>> }
    ELSE LET shorter == SeqsUpTo(S, n - 1)
         IN  shorter \cup { Append(s, x) : s \in shorter, x \in S }

NoFiles == [present |-> FALSE, list |-> <<>>]

FileListsOf(S, n) == { [present |-> TRUE, list |-> l] : l \in SeqsUpTo(S, n) }

FileLists(n) == FileListsOf(Attachments, n)

\* the attachments that carry a mimeType key
TypedAttachments == { f \in Attachments : "mimeType" \in DOMAIN f }

PayloadsOf(boards, questions, others, fileInputs) ==
    { Dict(<<"board","class_level","subject","chapter","question","model">>,
           <<b, o[1], o[2], o[3], q, o[4]>>)
        @@ (IF fs.present THEN "files" :> fs.list ELSE <<>>) :
        b \in boards, q \in questions, o \in others, fs \in fileInputs }

\* Every combination of the text fields with at most one attachment, and every
\* list up to MaxFiles of attachments that carry a mimeType key with the text
\* fields left out.
Payloads ==
    PayloadsOf(BoardInputs, QuestionInputs, OtherInputs, {NoFiles} \cup FileLists(1))
        \cup PayloadsOf({Absent}, {Absent}, {<<Absent, Absent, Absent, Absent>>},
                        FileListsOf(TypedAttachments, MaxFiles))

(***************************************************************************)
(* Texts the handler builds.                                               *)
(***************************************************************************)
DEFAULT_QUESTION == <<"Please analyse this and answer any questions based on it.">>

\* The f-string of lines 89-266, with its fixed prose folded into tokens.
PromptTemplate(board, class_level, subject, chapter, question) ==
    <<"\nYou are an expert ">> \o board \o <<" Class ">> \o class_level
        \o <<" teacher.\n\nBoard: ">> \o board
        \o <<"\nSubject: ">> \o subject
        \o <<"\nChapter: ">> \o chapter
        \o <<"\n\nA student from Class ">> \o class_level
        \o <<" has asked the following question:\n\n\"\"\"">> \o question
        \o <<"\"\"\"\n\n<requirements and answering rules 1-26>\n">>

\* the note without the name of the file
NoteUnsupported_NoName(name, mime) ==
    <<"\n\n[Note: File (">> \o mime \o <<") is unsupported and was skipped.]">>

NoteUnsupported(name, mime) ==
    <<"\n\n[Note: File '">> \o name \o <<"' (">> \o mime
        \o <<") is unsupported and was skipped.]">>

NoteDecode(name, e) ==
    <<"\n\n[Note: Could not decode file '">> \o name \o <<"': ">> \o e \o <<"]">>

NotePdfState(name, state) ==
    <<"\n\n[Note: PDF '">> \o name \o <<"' could not be processed (state: ">>
        \o <<state>> \o <<").]">>

NoteUploadFailed(e) ==
    <<"\n\n[Note: PDF upload failed (">> \o e \o <<"), trying inline.]">>

NotePdfAtAll(name) ==
    <<"\n\n[Note: Could not process PDF '">> \o name \o <<"' at all.]">>

TextInline(name, text_content) ==
    <<"\n\n--- Content of ">> \o name \o <<" ---\n">> \o text_content
        \o <<"\n--- End of ">> \o name \o <<" ---">>

NoteImage(name, e) ==
    <<"\n\n[Note: Could not process image '">> \o name \o <<"': ">> \o e \o <<"]">>

(***************************************************************************)
(* Content parts (types.Part).                                             *)
(***************************************************************************)
PartFromBytes(data, mime) ==
    [kind |-> "bytes", mime_type |-> mime, data |-> data, uri |-> <<>>, text |-> <<>>]

PartFromUri(uri, mime) ==
    [kind |-> "uri", mime_type |-> mime, data |-> <<>>, uri |-> uri, text |-> <<>>]

PartFromText(text) ==
    [kind |-> "text", mime_type |-> <<>>, data |-> <<>>, uri |-> <<>>, text |-> text]

(***************************************************************************)
(* The upstream provider (google.genai client).                            *)
(***************************************************************************)
FileStates == {"PROCESSING", "ACTIVE", "FAILED"}

HandleName(n) == <<"files/", ToString(n)>>

HandleUri(name) == <<"https://generativelanguage.googleapis.com/v1beta/">> \o name

UploadErrors == { <<"503 UNAVAILABLE">> }

PartErrors == { <<"invalid part">> }

StreamErrors == { <<"429 RESOURCE_EXHAUSTED">> }

\* chunk.text of a streamed chunk: None (Absent), "" or a text
ChunkTexts == { Absent, <<>>, <<"A">>, <<"\"","B">> }

NoUpload == [name |-> <<>>, uri |-> <<>>, state |-> "NONE"]

(***************************************************************************)
(* Server-sent events yielded by stream().                                 *)
(***************************************************************************)
JsonEscapeChar(c) ==
    CASE c = "\"" -> <<"\\", "\"">>
      [] c = "\\" -> <<"\\", "\\">>
      [] c = "\n" -> <<"\\", "n">>
      [] OTHER -> <<c>>

RECURSIVE JsonEscape(_)
JsonEscape(s) == IF s = <<>> THEN <<>> ELSE JsonEscapeChar(Head(s)) \o JsonEscape(Tail(s))

\* json.dumps(text) of a str
JsonDumps(text) == <<"\"">> \o JsonEscape(text) \o <<"\"">>

DataEvent(text) == <<"data: ">> \o JsonDumps(text) \o <<"\n\n">>

EndEvent == <<"event: end\n", "data: ", "done", "\n\n">>

ErrorEvent(e) == <<"event: error\n", "data: ">> \o e \o <<"\n\n">>

IsData(ev) == ev # <<>> /\ ev[1] = "data: "
IsEnd(ev) == ev # <<>> /\ ev[1] = "event: end\n"
IsError(ev) == ev # <<>> /\ ev[1] = "event: error\n"
IsTerminal(ev) == IsEnd(ev) \/ IsError(ev)

(***************************************************************************)
(* State of one /api/ask request.                                          *)
(***************************************************************************)
VARIABLES
    pc,                  \* position of the handler / the stream generator
    payload,             \* the request body
    status,              \* HTTP status of the response, 0 while none is sent
    detail,              \* detail of the HTTPException raised, if any
    model_name,          \* local model_name
    prompt_text,         \* local prompt_text
    contents,            \* local contents
    uploaded_file_uris,  \* local uploaded_file_uris
    idx,                 \* position of the attachment loop in files
    uploaded,            \* local uploaded (the File object of the upload)
    waited,              \* local waited
    remote,              \* names of the files held by the provider
    upstream,            \* upstream client operations invoked so far
    deleted,             \* names passed to the provider's delete, in call order
    origin,              \* for each non-text part of contents, the position in
                         \* files of the attachment it was built from
    failed,              \* <<position in files, kind>> of every exception caught
                         \* in the attachment loop
    produced,            \* what the upstream returned at each call, in order
    out,                 \* events yielded by stream(), in order
    outstanding,         \* pulls handed to the executor that have not returned
    generated,           \* calls of generate_content_stream made
    peer                 \* a second request served by the same event loop

vars == << pc, payload, status, detail, model_name, prompt_text, contents,
           uploaded_file_uris, idx, uploaded, waited, remote, upstream, deleted,
           origin, failed, produced, out, outstanding, generated, peer >>

asmVars ==
    << prompt_text, contents, origin, failed, uploaded_file_uris, idx, uploaded, waited >>
extVars == << remote, upstream, deleted >>
reqVars == << payload, status, detail, model_name >>
outVars == << produced, out >>
pullVars == << outstanding, generated >>

\* everything of the first request but the provider's files
mainVars == << pc, reqVars, asmVars, upstream, deleted, outVars, pullVars >>

\* no second request
NoPeer ==
    [pc |-> "none", contents |-> <<>>, uploaded_file_uris |-> <<>>, created |-> {},
     produced |-> <<>>, out |-> <<>>]

\* normalised request fields, lines 60-66
board == Upper(Strip(GetOr(payload, "board", <<"I","C","S","E">>)))
class_level == Strip(GetOr(payload, "class_level", <<"1","0">>))
subject == Strip(GetOr(payload, "subject", <<"General">>))
chapter == Strip(GetOr(payload, "chapter", <<"General">>))
question == Strip(GetOr(payload, "question", <<>>))
model_choice == Lower(GetOr(payload, "model", <<"t","1">>))
files == GetOr(payload, "files", <<>>)

Init ==
    /\ pc = "request"
    /\ payload \in Payloads
    /\ status = 0
    /\ detail = <<>>
    /\ model_name = <<>>
    /\ prompt_text = <<>>
    /\ contents = <<>>
    /\ uploaded_file_uris = <<>>
    /\ idx = 0
    /\ uploaded = NoUpload
    /\ waited = 0
    /\ remote = {}
    /\ upstream = {}
    /\ deleted = <<>>
    /\ origin = <<>>
    /\ failed = {}
    /\ produced = <<>>
    /\ out = <<>>
    /\ outstanding = 0
    /\ generated = 0
    /\ peer = NoPeer

\* raise HTTPException(status_code=code, detail=msg)
Reject(code, msg) ==
    /\ pc' = "rejected"
    /\ status' = code
    /\ detail' = msg
    /\ UNCHANGED << peer, payload, model_name, asmVars, extVars, outVars, pullVars >>

\* ask_question up to the attachment loop: normalise, validate, choose the
\* model, build the prompt.
AskQuestion ==
    /\ pc = "request"
    /\ IF board \notin ALLOWED_BOARDS
         THEN Reject(400, <<"Invalid board">>)
       ELSE IF question = <<>> /\ files = <<>>
         THEN Reject(400, <<"Question or file required">>)
       ELSE
         LET q == IF question = <<>> /\ files # <<>> THEN DEFAULT_QUESTION ELSE question
         IN  /\ model_name' = IF model_choice = <<"t","2">>
                                THEN <<"gemini-3-pro-preview">>
                                ELSE <<"gemini-2.5-flash-lite">>
             /\ prompt_text' = PromptTemplate(board, class_level, subject, chapter, q)
             /\ contents' = <<>>
             /\ origin' = <<>>
             /\ uploaded_file_uris' = <<>>
             /\ idx' = 1
             /\ pc' = "files"
             /\ UNCHANGED << peer, payload, status, detail, failed, uploaded, waited,
                             extVars, outVars, pullVars >>

(***************************************************************************)
(* The attachment loop, lines 277-349.                                     *)
(***************************************************************************)
FileMime(f) == Get(f, "mimeType", <<>>)
FileB64(f) == Get(f, "base64", <<>>)
FileName(f) == Get(f, "name", <<"file">>)

\* line 282: if not b64 or not mime: continue
IsEmptyFile(f) == FileB64(f) = <<>> \/ FileMime(f) = <<>>

\* line 285: if mime not in SUPPORTED_MIME_TYPES
IsUnsupported(f) == FileMime(f) \notin SUPPORTED_MIME_TYPES

\* the attachment reaches the PDF branch of line 295
IsPdfUpload(f) ==
    /\ ~IsEmptyFile(f)
    /\ ~IsUnsupported(f)
    /\ B64Valid(FileB64(f))
    /\ FileMime(f) = <<"application/pdf">>

InLoop == pc = "files" /\ idx <= Len(files)

\* contents.append(part) for the attachment of the current iteration
AppendPart(part) ==
    /\ contents' = Append(contents, part)
    /\ origin' = Append(origin, idx)

NoPart == UNCHANGED << contents, origin >>

\* an except clause of the loop is entered for the current attachment
Caught(kinds) == failed' = failed \cup { <<idx, k>> : k \in kinds }

NextFile ==
    /\ idx' = idx + 1
    /\ pc' = "files"
    /\ uploaded' = NoUpload
    /\ waited' = 0

\* One iteration of the loop for an attachment that makes no upstream call:
\* empty, unsupported, undecodable, plain text or image.
Attach ==
    /\ InLoop
    /\ ~IsPdfUpload(files[idx])
    /\ LET f == files[idx]
           mime == FileMime(f)
           b64 == FileB64(f)
           name == FileName(f)
           raw_bytes == B64Decode(b64)
       IN  IF IsEmptyFile(f)
             THEN UNCHANGED << prompt_text, contents, origin, failed >>
           ELSE IF IsUnsupported(f)
             THEN /\ prompt_text' = prompt_text \o NoteUnsupported(name, mime)
                  /\ NoPart
                  /\ UNCHANGED failed
           ELSE IF ~B64Valid(b64)
             THEN /\ prompt_text' = prompt_text \o NoteDecode(name, B64Error)
                  /\ NoPart
                  /\ Caught({"decode"})
           ELSE IF mime = <<"text/plain">>
             THEN /\ prompt_text' =
                        prompt_text \o TextInline(name, Utf8DecodeReplace(raw_bytes))
                  /\ NoPart
                  /\ UNCHANGED failed
           ELSE \/ /\ AppendPart(PartFromBytes(raw_bytes, mime))
                   /\ UNCHANGED << prompt_text, failed >>
                \/ \E e \in PartErrors :
                      /\ prompt_text' = prompt_text \o NoteImage(name, e)
                      /\ NoPart
                      /\ Caught({"image"})
    /\ NextFile
    /\ UNCHANGED << peer, reqVars, uploaded_file_uris, extVars, outVars, pullVars >>

\* the exception of the File API ends the request instead
InlineFallback_Abort(e) ==
    /\ Caught({"upload"})
    /\ pc' = "rejected"
    /\ UNCHANGED << prompt_text, contents, origin, uploaded_file_uris, idx, uploaded,
                    waited >>

\* except Exception as e, lines 328-334: note the failure, try the bytes inline
InlineFallback(e) ==
    LET f == files[idx]
    IN  /\ \/ /\ prompt_text' = prompt_text \o NoteUploadFailed(e)
              /\ AppendPart(PartFromBytes(B64Decode(FileB64(f)), FileMime(f)))
              /\ Caught({"upload"})
           \/ /\ prompt_text' =
                    prompt_text \o NoteUploadFailed(e) \o NotePdfAtAll(FileName(f))
              /\ NoPart
              /\ Caught({"upload", "inline"})
        /\ NextFile
        /\ UNCHANGED uploaded_file_uris

\* client.files.upload, lines 297-313
UploadPdf ==
    /\ InLoop
    /\ IsPdfUpload(files[idx])
    /\ upstream' = upstream \cup {"upload"}
    /\ \/ \E st \in FileStates :
            LET name == HandleName(Cardinality(remote) + 1)
            IN  /\ remote' = remote \cup {name}
                /\ uploaded' = [name |-> name, uri |-> HandleUri(name), state |-> st]
                /\ waited' = 0
                /\ pc' = "poll"
                /\ UNCHANGED << prompt_text, contents, origin, failed,
                                uploaded_file_uris, idx >>
       \/ \E e \in UploadErrors :
            /\ InlineFallback(e)
            /\ UNCHANGED remote
    /\ UNCHANGED << peer, reqVars, deleted, outVars, pullVars >>

\* the loop condition without the bound on waited
Polling_NoTimeout == uploaded.state = "PROCESSING"

\* line 314
Polling == uploaded.state = "PROCESSING" /\ waited < max_wait

\* one turn of the polling loop, lines 314-317
PollStatus ==
    /\ pc = "poll"
    /\ Polling
    /\ upstream' = upstream \cup {"get"}
    /\ \/ \E st \in FileStates :
            /\ uploaded' = [uploaded EXCEPT !.state = st]
            /\ waited' = waited + 1
            /\ UNCHANGED << pc, prompt_text, contents, origin, failed,
                            uploaded_file_uris, idx >>
       \/ \E e \in UploadErrors : InlineFallback(e)
    /\ UNCHANGED << peer, reqVars, remote, deleted, outVars, pullVars >>

\* the uri of the file appended where its name belongs
Register_Uri(name) == uploaded_file_uris' = Append(uploaded_file_uris, HandleUri(name))

\* line 324: uploaded_file_uris.append(uploaded.name)
Register(name) == uploaded_file_uris' = Append(uploaded_file_uris, name)

\* after the polling loop, lines 319-334: Part.from_uri is inside the try
\* statement, so an exception it raises goes to the fallback as well
PollDone ==
    /\ pc = "poll"
    /\ ~Polling
    /\ IF uploaded.state = "ACTIVE"
         THEN \/ /\ AppendPart(PartFromUri(uploaded.uri, <<"application/pdf">>))
                 /\ Register(uploaded.name)
                 /\ NextFile
                 /\ UNCHANGED << prompt_text, failed >>
              \/ \E e \in PartErrors : InlineFallback(e)
         ELSE /\ prompt_text' =
                    prompt_text \o NotePdfState(FileName(files[idx]), uploaded.state)
              /\ NextFile
              /\ UNCHANGED << contents, origin, uploaded_file_uris, failed >>
    /\ UNCHANGED << peer, reqVars, extVars, outVars, pullVars >>

\* the text part put in front of the other parts
WithTextPart_First(parts, text) == << PartFromText(text) >> \o parts

\* line 352: contents.append(types.Part.from_text(text=prompt_text))
WithTextPart(parts, text) == Append(parts, PartFromText(text))

\* lines 352 and 382-390: the text part goes last, the response is returned
FinishContents ==
    /\ pc = "files"
    /\ idx > Len(files)
    /\ contents' = WithTextPart(contents, prompt_text)
    /\ status' = 200
    /\ pc' = "ready"
    /\ UNCHANGED << peer, payload, detail, model_name, prompt_text, origin, failed,
                    uploaded_file_uris, idx, uploaded, waited, extVars, outVars,
                    pullVars >>

(***************************************************************************)
(* The stream generator, lines 357-380.  produced records what the         *)
(* upstream did at each call, in order.                                    *)
(***************************************************************************)
Chunk(t) == [kind |-> "chunk", text |-> t]
Sentinel == [kind |-> "sentinel", text |-> <<>>]
Raised(e) == [kind |-> "raise", text |-> e]

\* chunk.text or ""
ChunkText(c) == IF c.text = Absent THEN <<>> ELSE c.text

NumChunks == Cardinality({i \in 1..Len(produced) : produced[i].kind = "chunk"})

\* every chunk is yielded, with or without text
HasText_Always(text) == TRUE

\* line 374: if text
HasText(text) == text # <<>>

\* a second pull handed over along with the next one
Dispatch_Ahead(n) == n + 2

\* line 370: loop.run_in_executor(None, get_next) with n pulls still out
Dispatch(n) == n + 1

\* a yield that puts the event in front of the ones already sent
Yield_Front(ev) == out' = <<ev>> \o out

\* yield ev
Yield(ev) == out' = Append(out, ev)

\* the end event yielded after the try statement instead of inside it
CatchError_ThenEnd(e) ==
    /\ produced' = Append(produced, Raised(e))
    /\ out' = Append(Append(out, ErrorEvent(e)), EndEvent)
    /\ pc' = "closing"

\* no except clause: the exception leaves the generator
CatchError_Propagate(e) ==
    /\ produced' = Append(produced, Raised(e))
    /\ UNCHANGED out
    /\ pc' = "raised"

\* except Exception as e: yield the error event (lines 379-380)
CatchError(e) ==
    /\ produced' = Append(produced, Raised(e))
    /\ Yield(ErrorEvent(e))
    /\ pc' = "closing"

\* The transport starts iterating stream(): generate_content_stream is called
\* and the first pull is handed to the executor (lines 359-370).
StreamStart ==
    /\ pc = "ready"
    /\ generated' = generated + 1
    /\ \/ /\ upstream' = upstream \cup {"generate", "next"}
          /\ outstanding' = Dispatch(outstanding)
          /\ pc' = "pulling"
          /\ UNCHANGED outVars
       \/ /\ upstream' = upstream \cup {"generate"}
          /\ UNCHANGED outstanding
          /\ \E e \in StreamErrors : CatchError(e)
    /\ UNCHANGED << peer, reqVars, asmVars, remote, deleted >>

\* The pull handed to the executor returns (lines 370-380): a chunk, the
\* sentinel None, or an exception.  A chunk with text is yielded; a chunk
\* without text goes straight to the next pull.
PullReturn ==
    /\ pc = "pulling"
    /\ \/ /\ NumChunks < MaxChunks
          /\ \E t \in ChunkTexts :
                LET text == ChunkText(Chunk(t))
                IN  /\ produced' = Append(produced, Chunk(t))
                    /\ IF HasText(text)
                         THEN /\ Yield(DataEvent(text))
                              /\ outstanding' = outstanding - 1
                              /\ pc' = "yielded"
                         ELSE /\ UNCHANGED out
                              /\ outstanding' = Dispatch(outstanding - 1)
                              /\ pc' = "pulling"
       \/ /\ produced' = Append(produced, Sentinel)
          /\ Yield(EndEvent)
          /\ outstanding' = outstanding - 1
          /\ pc' = "closing"
       \/ /\ \E e \in StreamErrors : CatchError(e)
          /\ outstanding' = outstanding - 1
    /\ UNCHANGED << peer, reqVars, asmVars, extVars, generated >>

\* The consumer asks for the next event after a data event: the loop hands the
\* next pull to the executor (line 370).
Resume ==
    /\ pc = "yielded"
    /\ pc' = "pulling"
    /\ upstream' = upstream \cup {"next"}
    /\ outstanding' = Dispatch(outstanding)
    /\ UNCHANGED << peer, reqVars, asmVars, remote, deleted, outVars, generated >>

\* The consumer asks for the next event after the terminal event: the
\* generator returns.
StreamClose ==
    /\ pc = "closing"
    /\ pc' = "done"
    /\ UNCHANGED << peer, reqVars, asmVars, extVars, outVars, pullVars >>

\* the cancellation caught by the except clause like an upstream error
Cancel_AsException ==
    /\ pc \in {"ready", "pulling", "yielded", "closing"}
    /\ pc' = "cancelled"
    /\ Yield(ErrorEvent(<<"CancelledError">>))
    /\ UNCHANGED << peer, reqVars, asmVars, extVars, produced, pullVars >>

\* The client disconnects: the transport cancels or closes the generator
\* (CancelledError at the await, GeneratorExit at a yield).  Neither is an
\* Exception, so line 379 does not catch it and the generator just unwinds.
Cancel ==
    /\ pc \in {"ready", "pulling", "yielded", "closing"}
    /\ pc' = "cancelled"
    /\ UNCHANGED << peer, reqVars, asmVars, extVars, outVars, pullVars >>

\* The pull that was in the executor when the generator was cancelled returns
\* in its worker thread; nobody awaits its result any more.
AbandonedPullReturn ==
    /\ pc = "cancelled"
    /\ outstanding > 0
    /\ outstanding' = outstanding - 1
    /\ UNCHANGED << peer, pc, reqVars, asmVars, extVars, outVars, generated >>

Next ==
    \/ AskQuestion
    \/ Attach
    \/ UploadPdf
    \/ PollStatus
    \/ PollDone
    \/ FinishContents
    \/ StreamStart
    \/ PullReturn
    \/ Resume
    \/ StreamClose
    \/ Cancel
    \/ AbandonedPullReturn

Spec == Init /\ [][Next]_vars

TypeOK ==
    /\ pc \in {"request", "rejected", "files", "poll", "ready", "pulling", "yielded",
               "closing", "done", "cancelled"}
    /\ Len(origin) <= Len(contents)
    /\ status \in {0, 200, 400}
    /\ waited \in 0..max_wait
    /\ idx \in 0..(MaxFiles + 2)
    /\ outstanding \in 0..1
    /\ generated \in 0..1

(***************************************************************************)
(* Two requests on one event loop.  ask_question is an async def without   *)
(* an await: from its first line to the return of line 382 it runs on the  *)
(* event loop without yielding it, its blocking calls (client.files.upload,*)
(* time.sleep, client.files.get) included.  stream() yields the loop at    *)
(* the await of line 370 and at each yield.  The second request is the     *)
(* same code on a fixed payload (a question and one PDF), its handler      *)
(* taken as one step and its polling left out.                             *)
(***************************************************************************)
MaxPeerChunks == 1

PdfFile == Dict(<<"name","mimeType","base64">>, <<<<"d.pdf">>, <<"application/pdf">>, B64_PDF>>)

PngFile == Dict(<<"name","mimeType","base64">>, <<Absent, <<"image/png">>, B64_PNG>>)

PayloadsTwo ==
    PayloadsOf({Absent}, {<<" ","q"," ">>}, {<<Absent, Absent, Absent, Absent>>},
               { [present |-> TRUE, list |-> l] : l \in { <<PdfFile>>, <<PngFile, PdfFile>> } })

PeerPrompt ==
    PromptTemplate(<<"I","C","S","E">>, <<"1","0">>, <<"General">>, <<"General">>, <<"p">>)

PeerChunkText == <<"P">>

\* the handler of the first request is between its first and its last line
LoopHeld == pc \in {"files", "poll"}

\* contents as one list shared by the requests
LocalContents_Shared(parts, text) == WithTextPart(contents \o parts, text)

\* lines 274 and 352: contents is a list created by the call
LocalContents(parts, text) == WithTextPart(parts, text)

\* ask_question of the second request, lines 58-390
PeerAsk ==
    /\ peer.pc = "request"
    /\ ~LoopHeld
    /\ \/ LET name == HandleName(Cardinality(remote) + 1)
          IN  /\ remote' = remote \cup {name}
              /\ peer' = [peer EXCEPT
                    !.pc = "ready",
                    !.contents = LocalContents(
                        << PartFromUri(HandleUri(name), <<"application/pdf">>) >>,
                        PeerPrompt),
                    !.uploaded_file_uris = << name >>,
                    !.created = {name}]
       \/ \E e \in UploadErrors :
            /\ UNCHANGED remote
            /\ peer' = [peer EXCEPT
                  !.pc = "ready",
                  !.contents = LocalContents(
                      << PartFromBytes(B64Decode(B64_PDF), <<"application/pdf">>) >>,
                      PeerPrompt \o NoteUploadFailed(e))]
    /\ UNCHANGED mainVars

\* stream() of the second request up to its first await, lines 359-370
PeerStreamStart ==
    /\ peer.pc = "ready"
    /\ ~LoopHeld
    /\ peer' = [peer EXCEPT !.pc = "pulling"]
    /\ UNCHANGED << mainVars, remote >>

PeerNumChunks ==
    Cardinality({i \in 1..Len(peer.produced) : peer.produced[i].kind = "chunk"})

\* the pull of the second request has returned and stream() is resumed on the
\* event loop, lines 370-377
PeerPullReturn ==
    /\ peer.pc = "pulling"
    /\ ~LoopHeld
    /\ \/ /\ PeerNumChunks < MaxPeerChunks
          /\ peer' = [peer EXCEPT
                !.pc = "yielded",
                !.produced = Append(@, Chunk(PeerChunkText)),
                !.out = Append(@, DataEvent(PeerChunkText))]
       \/ peer' = [peer EXCEPT
                !.pc = "done",
                !.produced = Append(@, Sentinel),
                !.out = Append(@, EndEvent)]
    /\ UNCHANGED << mainVars, remote >>

\* the consumer of the second request asks for the next event
PeerResume ==
    /\ peer.pc = "yielded"
    /\ ~LoopHeld
    /\ peer' = [peer EXCEPT !.pc = "pulling"]
    /\ UNCHANGED << mainVars, remote >>

PeerNext == PeerAsk \/ PeerStreamStart \/ PeerPullReturn \/ PeerResume

InitTwo ==
    /\ pc = "request"
    /\ payload \in PayloadsTwo
    /\ status = 0
    /\ detail = <<>>
    /\ model_name = <<>>
    /\ prompt_text = <<>>
    /\ contents = <<>>
    /\ uploaded_file_uris = <<>>
    /\ idx = 0
    /\ uploaded = NoUpload
    /\ waited = 0
    /\ remote = {}
    /\ upstream = {}
    /\ deleted = <<>>
    /\ origin = <<>>
    /\ failed = {}
    /\ produced = <<>>
    /\ out = <<>>
    /\ outstanding = 0
    /\ generated = 0
    /\ peer = [NoPeer EXCEPT !.pc = "request"]

NextTwo ==
    \/ AskQuestion
    \/ Attach
    \/ UploadPdf
    \/ PollStatus
    \/ PollDone
    \/ FinishContents
    \/ StreamStart
    \/ PullReturn
    \/ Resume
    \/ StreamClose
    \/ Cancel
    \/ AbandonedPullReturn
    \/ PeerAsk
    \/ PeerStreamStart
    \/ PeerPullReturn
    \/ PeerResume

SpecTwo == InitTwo /\ [][NextTwo]_vars

(***************************************************************************)
(* Properties.                                                             *)
(***************************************************************************)
Count(seq, x) == Cardinality({i \in 1..Len(seq) : seq[i] = x})

Last(seq) == seq[Len(seq)]

\* the stream was consumed to its end, without cancellation
Consumed == pc = "done"

\* the data events stream() owes for a sequence of upstream results
RECURSIVE ExpectedData(_)
ExpectedData(results) ==
    IF results = <<>> THEN <<>>
    ELSE LET r == Head(results)
         IN  (IF r.kind = "chunk" /\ r.text # Absent /\ r.text # <<>>
                THEN << DataEvent(r.text) >> ELSE <<>>)
             \o ExpectedData(Tail(results))

\* C1: a terminal event (end or error) is never followed by another event, and
\* a stream consumed to its end holds exactly one terminal event, as its last
\* event, whatever the upstream did.
C1_OneTerminalLast ==
    /\ \A i \in 1..Len(out) : IsTerminal(out[i]) => i = Len(out)
    /\ \A i \in 1..Len(out) : ~(IsEnd(out[i]) /\ IsError(out[i]))
    /\ Consumed => (out # <<>> /\ IsTerminal(Last(out)))

C1_Witness ==
    /\ Consumed
    /\ Len(out) = 3
    /\ IsEnd(out[3])
    /\ IsData(out[1]) /\ IsData(out[2])

\* C2: at the end of a request every handle created by an upload has been
\* released (deleted) exactly once.
C2_ReleasedExactlyOnce ==
    Consumed => \A h \in remote : Count(deleted, h) = 1

\* C3: after the consumer cancels the stream, no handle created by the request
\* is left unreleased.
C3_ReleasedAfterCancel ==
    pc = "cancelled" => \A h \in remote : \E i \in 1..Len(deleted) : deleted[i] = h

\* s is a subsequence of t
RECURSIVE IsSubseq(_, _)
IsSubseq(s, t) ==
    IF s = <<>> THEN TRUE
    ELSE IF t = <<>> THEN FALSE
    ELSE IF Head(s) = Head(t) THEN IsSubseq(Tail(s), Tail(t))
    ELSE IsSubseq(s, Tail(t))

ChunkEvents ==
    LET chunks == SelectSeq(produced, LAMBDA r : r.kind = "chunk")
    IN  [i \in 1..Len(chunks) |-> DataEvent(ChunkText(chunks[i]))]

\* C4: the data events are, in order, events of distinct upstream chunks: they
\* form a subsequence of the chunk sequence (no reordering, no duplication).
C4_OrderPreserved ==
    IsSubseq(SelectSeq(out, IsData), ChunkEvents)

C4_Witness ==
    /\ Consumed
    /\ Len(SelectSeq(out, IsData)) = 2
    /\ out[1] # out[2]

\* C5: when the upstream raises, the data events of the chunks pulled before
\* stay in the output, followed by one error event carrying the exception
\* message; no end event is sent, nothing more is pulled and the generator
\* ends normally.
C5_ErrorAfterFragments ==
    \A n \in 1..Len(produced) :
        produced[n].kind = "raise" =>
            /\ n = Len(produced)
            /\ pc \in {"closing", "done", "cancelled"}
            /\ out = ExpectedData(SubSeq(produced, 1, n - 1))
                        \o << ErrorEvent(produced[n].text) >>

C5_Witness ==
    /\ Consumed
    /\ Len(produced) = 3
    /\ produced[3].kind = "raise" /\ produced[3].text # <<>>
    /\ Len(out) = 3

\* no upstream call was made and no stream was opened
NothingStarted ==
    /\ upstream = {}
    /\ remote = {}
    /\ contents = <<>>
    /\ out = <<>>

RejectedWith(msg) ==
    /\ pc = "rejected"
    /\ status = 400
    /\ detail = msg
    /\ NothingStarted

Blank(s) == \A i \in 1..Len(s) : s[i] \in {" ", "\t", "\n"}

NoQuestion == "question" \notin DOMAIN payload \/ Blank(payload["question"])

NoAttachments == "files" \notin DOMAIN payload \/ payload["files"] = <<>>

\* C6: a request whose question is missing or blank and whose attachment list
\* is absent or empty is rejected with a 400 before any upstream call and
\* without a stream.
C6_RejectedWithoutQuestion ==
    (pc # "request" /\ NoQuestion /\ NoAttachments) =>
        /\ pc = "rejected"
        /\ status = 400
        /\ NothingStarted

C6_Witness ==
    /\ RejectedWith(<<"Question or file required">>)
    /\ "question" \in DOMAIN payload
    /\ payload["question"] = <<" ">>
    /\ "files" \in DOMAIN payload

\* C7: a request whose question is longer than the cap is rejected with a 400
\* before any upstream call.
C7_RejectedTooLong ==
    (/\ pc # "request"
     /\ "question" \in DOMAIN payload
     /\ Len(payload["question"]) > QuestionCap) =>
        /\ pc = "rejected"
        /\ status = 400
        /\ NothingStarted

\* raw is the board a, in any letter case, between any white space
BoardMatches(raw, a) ==
    \E lo \in 0..Len(raw) :
        /\ Len(raw) >= lo + Len(a)
        /\ \A k \in 1..Len(raw) :
              IF k <= lo \/ k > lo + Len(a)
                THEN raw[k] = " "
                ELSE <<raw[k], a[k - lo]>> \in
                        { <<"I","I">>, <<"i","I">>, <<"C","C">>, <<"c","C">>,
                          <<"S","S">>, <<"s","S">>, <<"E","E">>, <<"e","E">>,
                          <<"B","B">>, <<"b","B">>, <<"L","L">>, <<"l","L">> }

BoardDefaulted == "board" \notin DOMAIN payload \/ payload["board"] = <<>>

BoardAllowed ==
    BoardDefaulted \/ \E a \in ALLOWED_BOARDS : BoardMatches(payload["board"], a)

\* C8: an absent (or empty) board defaults to ICSE and is accepted; a supplied
\* board is accepted exactly when, stripped and in upper case, it is ICSE, CBSE
\* or SSLC; any other board is rejected with 400 "Invalid board" before any
\* upstream call and without a stream, whatever the other fields are.
C8_BoardValidation ==
    pc # "request" =>
        /\ ~BoardAllowed => RejectedWith(<<"Invalid board">>)
        /\ BoardAllowed => detail # <<"Invalid board">>
        /\ (BoardDefaulted /\ pc # "rejected") =>
              Contains(prompt_text, <<" teacher.\n\nBoard: ", "I", "C", "S", "E", "\nSubject: ">>)

C8_Witness ==
    /\ RejectedWith(<<"Invalid board">>)
    /\ ~NoQuestion
    /\ ~NoAttachments
    /\ "model" \in DOMAIN payload

\* the attachment loop is over and the contents are complete
Assembled == pc \in {"ready", "pulling", "yielded", "closing", "done", "cancelled"}

InstructionText == Last(contents).text

HasSkipNote(text, f) ==
    \E i \in 1..Len(text) :
        /\ text[i] = "\n\n[Note: File '"
        /\ Len(text) >= i + Len(FileName(f)) + Len(FileMime(f)) + 2
        /\ SubSeq(text, i + 1, i + Len(FileName(f))) = FileName(f)
        /\ text[i + Len(FileName(f)) + 1] = "' ("
        /\ SubSeq(text, i + Len(FileName(f)) + 2,
                  i + Len(FileName(f)) + Len(FileMime(f)) + 1) = FileMime(f)
        /\ text[i + Len(FileName(f)) + Len(FileMime(f)) + 2]
              = ") is unsupported and was skipped.]"

ContributesNoPart(i) == \A j \in 1..Len(origin) : origin[j] # i

\* C9 as stated: every attachment whose mime type is not supported, one with
\* an empty mime type or payload included, yields no part and leaves a skip
\* annotation naming it in the instruction text.
C9_EveryUnsupportedAnnotated ==
    Assembled =>
        \A i \in 1..Len(files) :
            FileMime(files[i]) \notin SUPPORTED_MIME_TYPES =>
                /\ ContributesNoPart(i)
                /\ HasSkipNote(InstructionText, files[i])

\* C9 amended: every attachment with a non-empty mime type and a non-empty
\* payload whose mime type is not supported yields no part and leaves a skip
\* annotation naming it in the instruction text passed to generation; no
\* attachment makes the request fail.
C9_NonEmptyUnsupportedAnnotated ==
    /\ pc = "rejected" => idx = 0
    /\ Assembled =>
        /\ status = 200
        /\ \A i \in 1..Len(files) :
              (/\ FileMime(files[i]) # <<>>
               /\ FileB64(files[i]) # <<>>
               /\ FileMime(files[i]) \notin SUPPORTED_MIME_TYPES) =>
                  /\ ContributesNoPart(i)
                  /\ HasSkipNote(InstructionText, files[i])

C9_Witness ==
    /\ Consumed
    /\ "generate" \in upstream
    /\ Len(files) = 2
    /\ FileMime(files[2]) = <<"application/zip">>
    /\ FileB64(files[2]) # <<>>
    /\ HasSkipNote(InstructionText, files[2])

\* C10: the contents passed to generation hold exactly one text part, the last
\* one, whose text is the instruction text with everything assembly added to
\* it; the other parts are bytes and uri parts, in attachment order.  During
\* assembly the contents hold no text part.
C10_TextPartLast ==
    /\ ~Assembled => \A i \in 1..Len(contents) : contents[i].kind # "text"
    /\ Assembled =>
        /\ contents # <<>>
        /\ Last(contents).kind = "text"
        /\ Last(contents).text = prompt_text
        /\ \A i \in 1..(Len(contents) - 1) : contents[i].kind \in {"bytes", "uri"}
        /\ Len(origin) = Len(contents) - 1
        /\ \A i, j \in 1..Len(origin) : i < j => origin[i] < origin[j]

C10_Witness ==
    /\ "generate" \in upstream
    /\ Len(contents) = 3
    /\ contents[1].kind = "uri"
    /\ contents[2].kind = "bytes"
    /\ Contains(contents[3].text, <<"), trying inline.]">>)

HasSentinel == \E i \in 1..Len(produced) : produced[i].kind = "sentinel"

\* C13: a request never has more than one pull outstanding; a pull is
\* outstanding only while the generator waits for it (or was cancelled while
\* waiting), and then the fragment returned by the pull before it, if any, has
\* been yielded; once a pull has returned the sentinel it is the last result
\* and no pull is outstanding any more.
C13_OnePullAtATime ==
    /\ outstanding \in {0, 1}
    /\ pc = "pulling" => outstanding = 1
    /\ outstanding = 1 =>
          /\ pc \in {"pulling", "cancelled"}
          /\ (produced # <<>> /\ Last(produced).kind = "chunk"
                /\ ChunkText(Last(produced)) # <<>>) =>
                (out # <<>> /\ Last(out) = DataEvent(ChunkText(Last(produced))))
    /\ HasSentinel =>
          /\ Last(produced).kind = "sentinel"
          /\ Count(produced, Sentinel) = 1
          /\ outstanding = 0
          /\ pc \in {"closing", "done", "cancelled"}

C13_Witness ==
    /\ Consumed
    /\ Len(produced) = 3
    /\ produced[1].kind = "chunk" /\ ~HasText(ChunkText(produced[1]))
    /\ produced[2].kind = "chunk" /\ HasText(ChunkText(produced[2]))
    /\ produced[3].kind = "sentinel"
    /\ outstanding = 0

\* C14: the step that cancels the generator emits nothing and dispatches
\* nothing, and after it no event is emitted, no pull is dispatched and no
\* upstream result is consumed: the only thing that can still happen is the
\* return of the pull that was out at the cancellation.
C14_NothingAfterCancel ==
    [][ /\ pc' = "cancelled" =>
              /\ out' = out
              /\ outstanding' <= outstanding
              /\ upstream' = upstream
              /\ produced' = produced
              /\ generated' = generated
        /\ pc = "cancelled" => pc' = "cancelled" ]_vars

\* cancelled while a pull was out; that pull has returned since, unobserved
C14_Witness ==
    /\ pc = "cancelled"
    /\ outstanding = 0
    /\ Len(produced) = 2
    /\ produced[1].kind = "chunk" /\ HasText(ChunkText(produced[1]))
    /\ produced[2].kind = "chunk" /\ ~HasText(ChunkText(produced[2]))
    /\ out = << DataEvent(ChunkText(produced[1])) >>

\* the chunk carries no text: chunk.text is None or ""
EmptyChunk(r) == r.kind = "chunk" /\ r.text \in {Absent, <<>>}

\* C19: the data events are exactly the events of the upstream chunks that
\* carry text, in order, one each; a chunk without text adds no event, does
\* not end the stream (no terminal event follows from it) and leaves the relay
\* waiting for the next pull.
C19_OneEventPerFragment ==
    /\ SelectSeq(out, IsData) = ExpectedData(produced)
    /\ (produced # <<>> /\ EmptyChunk(Last(produced))) =>
          /\ pc \in {"pulling", "cancelled"}
          /\ pc = "pulling" => outstanding = 1
          /\ \A i \in 1..Len(out) : ~IsTerminal(out[i])

C19_Witness ==
    /\ Consumed
    /\ Len(produced) = 3
    /\ produced[1] = Chunk(Absent)
    /\ produced[2] = Chunk(<<"\"", "B">>)
    /\ produced[3] = Sentinel
    /\ out = << DataEvent(<<"\"", "B">>), EndEvent >>

Tracked(h) == \E i \in 1..Len(uploaded_file_uris) : uploaded_file_uris[i] = h

Released(h) == \E i \in 1..Len(deleted) : deleted[i] = h

\* C12: every handle created by an upload is tracked for release once its
\* polling is over, whatever state the polling ended in; it is released when
\* the stream is torn down (consumed or cancelled) and not before.
C12_AcquireReleasePaired ==
    /\ pc # "poll" => \A h \in remote : Tracked(h)
    /\ pc \in {"done", "cancelled"} => \A h \in remote : Released(h)
    /\ pc \notin {"done", "cancelled"} => deleted = <<>>

IsTextFile(f) ==
    /\ ~IsEmptyFile(f)
    /\ B64Valid(FileB64(f))
    /\ FileMime(f) = <<"text/plain">>

\* C17: a plain-text attachment contributes no part, and when its decoded text
\* is longer than the cap the instruction text does not hold it in full.
C17_TextTruncated ==
    Assembled =>
        \A i \in 1..Len(files) :
            IsTextFile(files[i]) =>
                LET text_content == Utf8DecodeReplace(B64Decode(FileB64(files[i])))
                IN  /\ ContributesNoPart(i)
                    /\ Len(text_content) > TextCap =>
                          ~Contains(InstructionText, text_content)

PeerInFlight == peer.pc \in {"request", "ready", "pulling", "yielded"}

\* C11: while the first request polls an uploaded PDF (between two polls, in
\* the one-second wait) or waits for a pull, a second request in flight can
\* take its next step.
C11_OthersProgress ==
    (pc \in {"poll", "pulling"} /\ PeerInFlight) => ENABLED PeerNext

Streaming == pc \in {"pulling", "yielded", "closing", "done"}

\* C15: the polling loop makes at most max_wait (20) polls: every turn that
\* stays in the loop counts one more poll and the count never exceeds 20.  A
\* loop left with the upload not ACTIVE is not fatal: the attachment leaves
\* the state annotation, or (when the poll itself raised) the inline bytes
\* part or the "at all" annotation; the loop goes on with the next
\* attachment, the request is answered with 200 and a started stream has
\* invoked generation.
C15_PollingBounded ==
    /\ [](/\ waited <= max_wait
          /\ pc \in {"files", "poll"} => status = 0
          /\ Assembled => (status = 200 /\ idx = Len(files) + 1)
          /\ Streaming => (generated = 1 /\ "generate" \in upstream))
    /\ [][ /\ (pc = "poll" /\ pc' = "poll") =>
                /\ waited' = waited + 1
                /\ waited' <= max_wait
                /\ idx' = idx
           /\ (pc = "poll" /\ pc' # "poll" /\ uploaded.state # "ACTIVE") =>
                /\ pc' = "files"
                /\ idx' = idx + 1
                /\ status' = status
                /\ \/ /\ prompt_text' = prompt_text
                              \o NotePdfState(FileName(files[idx]), uploaded.state)
                      /\ contents' = contents
                   \/ /\ contents' = Append(contents,
                              PartFromBytes(B64Decode(FileB64(files[idx])),
                                            <<"application/pdf">>))
                      /\ Contains(prompt_text', <<"), trying inline.]">>)
                   \/ /\ contents' = contents
                      /\ Contains(prompt_text', NotePdfAtAll(FileName(files[idx]))) ]_vars

\* a PDF still PROCESSING after the last poll, then an image, then generation
C15_Witness ==
    /\ Streaming
    /\ Len(files) = 2
    /\ Contains(InstructionText, NotePdfState(<<"d.pdf">>, "PROCESSING"))
    /\ "get" \in upstream
    /\ Len(contents) = 2
    /\ contents[1].kind = "bytes"
    /\ origin = <<2>>

\* the annotation an except clause of kind k leaves for attachment f
Annotated(text, f, k) ==
    CASE k = "decode" -> Contains(text, NoteDecode(FileName(f), B64Error))
      [] k = "image" -> \E e \in PartErrors : Contains(text, NoteImage(FileName(f), e))
      [] k = "upload" ->
            \E e \in UploadErrors \cup PartErrors : Contains(text, NoteUploadFailed(e))
      [] k = "inline" -> Contains(text, NotePdfAtAll(FileName(f)))

\* C16: an exception caught for an attachment never ends the request: a
\* request is rejected only before the loop; every caught exception leaves its
\* annotation in the instruction text; a PDF whose upstream call raised has,
\* unless the inline part failed too, its bytes part in the contents at the
\* place of the attachment; once the loop is over every attachment was
\* visited, the response is 200, and generation is invoked once by a started
\* stream, never twice.
C16_FailuresNotFatal ==
    /\ pc = "rejected" => (failed = {} /\ idx = 0)
    /\ \A x \in failed :
          /\ x[1] \in 1..Len(files)
          /\ x[1] < idx
          /\ Annotated(prompt_text, files[x[1]], x[2])
    /\ \A i \in 1..Len(files) :
          (<<i, "upload">> \in failed /\ <<i, "inline">> \notin failed) =>
              \E j \in 1..Len(origin) :
                  /\ origin[j] = i
                  /\ contents[j] = PartFromBytes(B64Decode(FileB64(files[i])),
                                                 FileMime(files[i]))
                  /\ \A k \in 1..Len(origin) : (k < j) <=> (origin[k] < i)
    /\ Assembled =>
          /\ status = 200
          /\ idx = Len(files) + 1
          /\ InstructionText = prompt_text
    /\ generated <= 1
    /\ generated = 1 => Assembled
    /\ Streaming => generated = 1

C16_Witness ==
    /\ Consumed
    /\ generated = 1
    /\ Len(files) = 2
    /\ failed = { <<1, "upload">>, <<2, "decode">> }
    /\ Len(contents) = 2
    /\ contents[1].kind = "bytes"

UriParts == SelectSeq(contents, LAMBDA part : part.kind = "uri")

\* the uri parts are, in order, the parts of the registered handles, one each,
\* and no attachment is the origin of two parts
UriPartsMatchHandles ==
    /\ Len(UriParts) = Len(uploaded_file_uris)
    /\ \A i \in 1..Len(uploaded_file_uris) :
          /\ UriParts[i].uri = HandleUri(uploaded_file_uris[i])
          /\ uploaded_file_uris[i] \in remote
          /\ \A j \in 1..Len(uploaded_file_uris) :
                uploaded_file_uris[i] = uploaded_file_uris[j] => i = j
    /\ \A i, j \in 1..Len(origin) : origin[i] = origin[j] => i = j

Registers == uploaded_file_uris' # uploaded_file_uris

\* the step that leaves the polling loop with the upload ACTIVE
FoundActive == pc = "poll" /\ pc' = "files" /\ uploaded.state = "ACTIVE"

\* C20 as stated: the uri parts of the contents are, in order, the parts of
\* the handles in uploaded_file_uris, one each; a handle is registered if and
\* only if its upload is found ACTIVE; no attachment is the origin of two
\* parts.
C20_RegisteredIffActive ==
    /\ []UriPartsMatchHandles
    /\ [][Registers <=> FoundActive]_vars

\* C20 amended: the uri parts of the contents are, in order, the parts of the
\* handles in uploaded_file_uris, one each; a handle is registered only in the
\* step that finds its upload ACTIVE, and exactly when that step appends its
\* uri part; when that step cannot build the uri part it registers nothing
\* and takes the fallback of the except clause; no attachment is the origin of
\* two parts.
C20_RegisteredWithUriPart ==
    /\ []UriPartsMatchHandles
    /\ [][ /\ Registers =>
                /\ FoundActive
                /\ uploaded_file_uris' = Append(uploaded_file_uris, uploaded.name)
                /\ contents' = Append(contents, PartFromUri(uploaded.uri, <<"application/pdf">>))
                /\ origin' = Append(origin, idx)
                /\ prompt_text' = prompt_text
           /\ (FoundActive /\ ~Registers) =>
                /\ <<idx, "upload">> \in failed'
                /\ Len(UriParts') = Len(UriParts)
                /\ Contains(prompt_text', <<"), trying inline.]">>) ]_vars

\* two PDFs, both found ACTIVE: the uri part of the first was built, the one
\* of the second was not
C20_Witness ==
    /\ Assembled
    /\ Len(files) = 2
    /\ Cardinality(remote) = 2
    /\ uploaded_file_uris = << HandleName(1) >>
    /\ Len(contents) = 3
    /\ contents[1].kind = "uri"
    /\ contents[2].kind = "bytes"
    /\ Contains(prompt_text, NoteUploadFailed(<<"invalid part">>))

\* the handles the first request created at the provider
Created == remote \ peer.created

UrisOf(parts) == { parts[i].uri : i \in {j \in 1..Len(parts) : parts[j].kind = "uri"} }

TextsOf(parts) == { parts[i].text : i \in {j \in 1..Len(parts) : parts[j].kind = "text"} }

\* C18: with two requests interleaved, the data events of each stream are
\* those of its own upstream iterator; the uri parts of each request's
\* contents refer to handles that request created, never to the other's; the
\* handle lists are disjoint; each request's contents end with its own
\* instruction text and hold no other text part.
C18_RequestsIsolated ==
    /\ SelectSeq(out, IsData) = ExpectedData(produced)
    /\ SelectSeq(peer.out, IsData) = ExpectedData(peer.produced)
    /\ \A ev \in {out[i] : i \in 1..Len(out)} : ev # DataEvent(PeerChunkText)
    /\ \A i \in 1..Len(peer.out) : IsData(peer.out[i]) => peer.out[i] = DataEvent(PeerChunkText)
    /\ UrisOf(contents) \subseteq { HandleUri(h) : h \in Created }
    /\ UrisOf(peer.contents) \subseteq { HandleUri(h) : h \in peer.created }
    /\ UrisOf(contents) \cap UrisOf(peer.contents) = {}
    /\ { uploaded_file_uris[i] : i \in 1..Len(uploaded_file_uris) } \subseteq Created
    /\ { peer.uploaded_file_uris[i] : i \in 1..Len(peer.uploaded_file_uris) }
          \subseteq peer.created
    /\ peer.created \subseteq remote
    /\ Assembled => TextsOf(contents) = {prompt_text}
    /\ peer.contents # <<>> =>
          /\ Cardinality(TextsOf(peer.contents)) = 1
          /\ \A t \in TextsOf(peer.contents) :
                SubSeq(t, 1, Len(PeerPrompt)) = PeerPrompt /\ ~Contains(t, <<" ","q"," ">>)

\* both requests hold an uploaded PDF and stream at the same time
C18_Witness ==
    /\ pc = "yielded"
    /\ peer.pc = "yielded"
    /\ Len(uploaded_file_uris) = 1
    /\ Len(peer.uploaded_file_uris) = 1
    /\ uploaded_file_uris[1] = HandleName(2)
    /\ peer.uploaded_file_uris[1] = HandleName(1)
    /\ Len(out) = 1
    /\ Len(peer.out) = 1

====
